---- MODULE Spec2Model ----
(***************************************************************************)
(* A model of the bitcoin-da adapter: the envelope parser and the sender   *)
(* authentication of src/src/helpers/parsers.rs, and the finality polling, *)
(* block scanning, proof construction and submission pipeline of           *)
(* src/src/service.rs.                                                     *)
(*                                                                         *)
(* Each component has its own group of variables and its own               *)
(* specification (SpecParse, SpecAuth, SpecNode, SpecBlock, SpecSend); in  *)
(* the specification of one component the variables of the others keep     *)
(* their idle values.                                                      *)
(*                                                                         *)
(* Byte strings are sequences of small naturals.  A script is modelled at  *)
(* the level of the instruction stream that rust-bitcoin's                 *)
(* Script::instructions() yields: a sequence of pushes and opcodes.        *)
(***************************************************************************)
EXTENDS Integers, Sequences, FiniteSets, TLC

VARIABLES
    \* ---- parse_transaction (parsers.rs) ----
    tx,            \* the transaction handed to parse_transaction
    rollup_name,   \* the rollup name the parser is queried with
    instructions,  \* the instruction stream still to be consumed
    consumed,      \* how many instructions next() has handed out
    parser,        \* grammar step, captured fields, and the returned value
    envelope,      \* how the script of tx was built: prefix, fields, suffix
    \* ---- recover_sender_and_hash_from_tx (parsers.rs) ----
    recovered,     \* the value recover_sender_and_hash_from_tx returned
    \* ---- get_finalized_at, get_block_at (service.rs) and the node ----
    tip,           \* the node's tip height (what get_block_count reports)
    call,          \* the running operation: its name and height argument
    pc,            \* where the operation is
    block_count,   \* local block_count of get_finalized_at
    block_hash,    \* local block_hash
    ret,           \* what the operation returned
    calls,         \* history: the RPC calls and sleeps made so far
    \* ---- extract_relevant_txs, get_extraction_proof (service.rs) ----
    block,         \* the block handed to the operation
    extracted,     \* the operation run and what it returned
    \* ---- send_transaction (service.rs) and the node's wallet ----
    config,        \* the service's address and key: valid or not
    wallet,        \* the node's unspent outputs, as get_utxos lists them
    mempool,       \* the ids of the transactions the node accepted
    files,         \* the persisted checkpoints: commit txid -> raw reveal
    send_pc,       \* per call of send_transaction: the next step
    send_local,    \* per call: utxos, satpoint, commit and reveal
    send_ret,      \* per call: what it returned
    send_log       \* history: the broadcasts and checkpoint writes, in order

parseVars == <<tx, rollup_name, instructions, consumed, parser, envelope>>
nodeVars == <<tip, call, pc, block_count, block_hash, ret, calls>>

blockVars == <<block, extracted>>

sendVars == <<config, wallet, mempool, files, send_pc, send_local, send_ret,
              send_log>>

vars == <<parseVars, recovered, nodeVars, blockVars, sendVars>>

----------------------------------------------------------------------------
(* Bounds of the model *)

\* the largest number of body chunk pushes of a built envelope
MaxChunks == 2

\* u64::MAX, scaled down: heights are MaxU64 + 1 values wide
MaxU64 == 7

\* the largest number of transactions of a block
MaxTxs == 3

\* the largest number of get_block_count polls (get_finalized_at) or
\* get_block_hash attempts (get_block_at) of one call that the model follows
MaxPolls == 3

----------------------------------------------------------------------------
(* Wire format constants (helpers/mod.rs): opaque, pairwise distinct byte  *)
(* literals.                                                               *)

BODY_TAG == <<>>
PUBLICKEY_TAG == <<1>>
RANDOM_TAG == <<2>>
ROLLUP_NAME_TAG == <<3>>
SIGNATURE_TAG == <<4>>

----------------------------------------------------------------------------
(* Script instructions: Instruction::PushBytes(bytes) and                  *)
(* Instruction::Op(op).                                                    *)

PushBytes(bytes) == [kind |-> "push", bytes |-> bytes, op |-> "none"]
Op(op) == [kind |-> "op", bytes |-> <<>>, op |-> op]

OP_IF == "OP_IF"
OP_ENDIF == "OP_ENDIF"

RECURSIVE Flatten(_)
\* the concatenation of a sequence of byte strings
Flatten(chunks) ==
    IF chunks = <<>> THEN <<>> ELSE Head(chunks) \o Flatten(Tail(chunks))

\* a sequence of pushes, one per chunk
Pushes(chunks) == [i \in 1..Len(chunks) |-> PushBytes(chunks[i])]

\* The envelope of the grammar for the fields e: name, sig, pk, nonce, chunks
EnvelopeScript(e) ==
    << PushBytes(BODY_TAG), Op(OP_IF),
       PushBytes(ROLLUP_NAME_TAG), PushBytes(e.name),
       PushBytes(SIGNATURE_TAG), PushBytes(e.sig),
       PushBytes(PUBLICKEY_TAG), PushBytes(e.pk),
       PushBytes(RANDOM_TAG), PushBytes(e.nonce),
       PushBytes(BODY_TAG) >>
    \o Pushes(e.chunks) \o << Op(OP_ENDIF) >>

----------------------------------------------------------------------------
(* parse_relevant_inscriptions, one instructions.next() at a time.         *)
(* The parser state is [step, signature, public_key, body, result].        *)

\* The value returned: status is "Ok" (with the ParsedInscription), "Err",
\* "panic" (the process aborted), or "running" / "start" while none is.
Outcome(status) ==
    [status |-> status, body |-> <<>>, signature |-> <<>>, public_key |-> <<>>]
ParseErr == Outcome("Err")
ParsedInscription(b, s, p) ==
    [status |-> "Ok", body |-> b, signature |-> s, public_key |-> p]

IsBodyTagPush_AnyPush(ins) == ins.kind = "push"
\* parsers.rs:42, 102: a push whose bytes are BODY_TAG
IsBodyTagPush(ins) == ins.kind = "push" /\ ins.bytes = BODY_TAG

\* parsers.rs:46-53: an opcode, and the opcode is OP_IF
IsOpIf(ins) == ins.kind = "op" /\ ins.op = OP_IF

\* parsers.rs:56, 69, 80, 91: a push whose bytes are the given tag
IsTagPush(ins, tag) == ins.kind = "push" /\ ins.bytes = tag

MatchRollupName_AnyPush(ins, name) == ins.kind = "push"
\* parsers.rs:60-66: a push whose bytes equal the queried rollup name
MatchRollupName(ins, name) == ins.kind = "push" /\ ins.bytes = name

\* parsers.rs:73-76, 84-87, 95-98: any push is captured
IsPush(ins) == ins.kind = "push"

BodyExtend_Replace(b, bytes) == bytes
\* parsers.rs:110: body.extend(bytes)
BodyExtend(b, bytes) == b \o bytes

ParserStart ==
    [step |-> 0, signature |-> <<>>, public_key |-> <<>>, body |-> <<>>,
     result |-> Outcome("running")]

Restart_Rewind(st) ==
    IF st.step >= 1 THEN [ParserStart EXCEPT !.step = 1] ELSE ParserStart
\* the state at the top of the outer while loop (every `continue`, and the
\* `break` of the body loop, lead there); the captured locals are out of
\* scope there
Restart(st) == ParserStart

\* One instructions.next() of parse_relevant_inscriptions in parser state
\* st: the state after the instruction ins was handed out.
Advance(st, ins, name) ==
    CASE st.step = 0 ->
            IF IsBodyTagPush(ins) THEN [st EXCEPT !.step = 1] ELSE Restart(st)
      [] st.step = 1 ->
            IF IsOpIf(ins) THEN [st EXCEPT !.step = 2] ELSE Restart(st)
      [] st.step = 2 ->
            IF IsTagPush(ins, ROLLUP_NAME_TAG) THEN [st EXCEPT !.step = 3]
            ELSE Restart(st)
      [] st.step = 3 ->
            IF MatchRollupName(ins, name) THEN [st EXCEPT !.step = 4]
            ELSE Restart(st)
      [] st.step = 4 ->
            IF IsTagPush(ins, SIGNATURE_TAG) THEN [st EXCEPT !.step = 5]
            ELSE Restart(st)
      [] st.step = 5 ->
            IF IsPush(ins) THEN [st EXCEPT !.step = 6, !.signature = ins.bytes]
            ELSE Restart(st)
      [] st.step = 6 ->
            IF IsTagPush(ins, PUBLICKEY_TAG) THEN [st EXCEPT !.step = 7]
            ELSE Restart(st)
      [] st.step = 7 ->
            IF IsPush(ins) THEN [st EXCEPT !.step = 8, !.public_key = ins.bytes]
            ELSE Restart(st)
      [] st.step = 8 ->
            IF IsTagPush(ins, RANDOM_TAG) THEN [st EXCEPT !.step = 9]
            ELSE Restart(st)
      [] st.step = 9 ->
            IF IsPush(ins) THEN [st EXCEPT !.step = 10] ELSE Restart(st)
      [] st.step = 10 ->
            IF IsBodyTagPush(ins)
            THEN [st EXCEPT !.step = 11, !.body = <<>>]
            ELSE Restart(st)
      [] OTHER ->
            IF IsPush(ins)
            THEN [st EXCEPT !.body = BodyExtend(st.body, ins.bytes)]
            ELSE IF ins.kind = "op" /\ ins.op = OP_ENDIF
            THEN [st EXCEPT !.result =
                     ParsedInscription(st.body, st.signature, st.public_key)]
            ELSE Restart(st)

\* parsers.rs:35, 125: next() returned None; whatever the step, control
\* reaches the top of the while loop, which ends, and Err(()) is returned
Exhausted(st) == [st EXCEPT !.result = ParseErr]

RECURSIVE RunParser(_, _, _)
RunParser(st, instrs, name) ==
    IF st.result.status # "running" THEN st.result
    ELSE IF instrs = <<>> THEN Exhausted(st).result
    ELSE RunParser(Advance(st, Head(instrs), name), Tail(instrs), name)

\* parse_relevant_inscriptions as a function of the instruction stream
parse_relevant_inscriptions(instrs, name) == RunParser(ParserStart, instrs, name)

----------------------------------------------------------------------------
(* Transactions as parse_transaction sees them: the inputs, each with the  *)
(* tapscript of its witness, if it has one.                                *)

NoTapscript == [present |-> FALSE, script |-> <<>>]
Tapscript(script) == [present |-> TRUE, script |-> script]
Transaction(inputs) == [input |-> inputs]

\* parsers.rs:26-28: tx.input[0].witness.tapscript().ok_or(()); indexing an
\* empty input list aborts the process
get_script(t) ==
    IF Len(t.input) = 0 THEN [status |-> "panic", script |-> <<>>]
    ELSE IF ~ t.input[1].present THEN [status |-> "Err", script |-> <<>>]
    ELSE [status |-> "Ok", script |-> t.input[1].script]

\* parsers.rs:19-23
parse_transaction(t, name) ==
    LET s == get_script(t)
    IN  IF s.status # "Ok" THEN Outcome(s.status)
        ELSE parse_relevant_inscriptions(s.script, name)

----------------------------------------------------------------------------
(* The inputs of the parser specification *)

\* rollup names: "sov-btc", "sov-btc2" (the first is a prefix of the
\* second), and the empty name
RollupNames == { <<7>>, <<7, 8>>, <<>> }

\* values of the nonce push (the signature and public key values are
\* listed in Envelopes); some values coincide with tags
NonceBytes == { <<>>, <<9>> }

\* values of one body chunk
ChunkBytes == { <<>>, <<1>>, <<2, 3>> }

RECURSIVE SeqsUpTo(_, _)
\* the sequences over S of length at most n
SeqsUpTo(S, n) ==
    IF n = 0 THEN { <<>> }
    ELSE LET shorter == SeqsUpTo(S, n - 1)
         IN  shorter \cup { Append(q, x) : q \in shorter, x \in S }

\* what precedes and what follows the envelope in the script
Prefixes ==
    { <<>>, << PushBytes(<<5>>) >>, << PushBytes(BODY_TAG) >>,
      << Op(OP_IF), PushBytes(<<7>>) >> }
\* a later, complete envelope for "sov-btc"
LaterEnvelope ==
    EnvelopeScript([name |-> <<7>>, sig |-> <<9>>, pk |-> <<9>>,
                    nonce |-> <<>>, chunks |-> << <<6>> >>])
Suffixes == { <<>>, << PushBytes(BODY_TAG), Op(OP_IF) >>, LaterEnvelope }

Envelopes ==
    [ prefix : Prefixes, name : RollupNames, sig : {<<4>>, <<5, 6>>},
      pk : {<<>>, <<5, 6>>}, nonce : NonceBytes,
      chunks : SeqsUpTo(ChunkBytes, MaxChunks), suffix : Suffixes,
      shape : {"envelope"} ]

\* degenerate transactions: no input at all, a first input with no tapscript
Degenerate ==
    [ prefix : {<<>>}, name : {<<7>>}, sig : {<<4>>}, pk : {<<>>},
      nonce : {<<>>}, chunks : {<<>>}, suffix : {<<>>},
      shape : {"no_input", "no_tapscript"} ]

ScriptOf(e) == e.prefix \o EnvelopeScript(e) \o e.suffix

TxOf(e) ==
    CASE e.shape = "no_input" -> Transaction(<<>>)
      [] e.shape = "no_tapscript" -> Transaction(<< NoTapscript >>)
      [] OTHER -> Transaction(<< Tapscript(ScriptOf(e)) >>)

----------------------------------------------------------------------------
(* The parser as a state machine *)

AuthIdle == recovered = [status |-> "idle", sender |-> <<>>, hash |-> 0]

NoError == [kind |-> "none", code |-> 0, message |-> ""]
NoCalls == [count |-> 0, hash |-> 0, block |-> 0, sleep |-> 0, notfound |-> 0,
            satisfied |-> FALSE, sat_count |-> 0, sat_sleep |-> 0,
            hash_error |-> NoError]
Returned(status, blk, error, at) ==
    [status |-> status, block |-> blk, error |-> error, at |-> at]

\* the concurrent calls of send_transaction; call c submits blob <<c>>
Callers == {1, 2}

NoTx == [kind |-> "none", core |-> <<>>, witness |-> "none"]
NoLocal == [utxos |-> <<>>, satpoint |-> 0, commit |-> NoTx, reveal |-> NoTx,
            signed |-> NoTx]
SendReturned(status, at) == [status |-> status, at |-> at]

SendIdle ==
    /\ config = [address_ok |-> TRUE, key_ok |-> TRUE]
    /\ wallet = <<>>
    /\ mempool = {}
    /\ files = {}
    /\ send_pc = [c \in Callers |-> "idle"]
    /\ send_local = [c \in Callers |-> NoLocal]
    /\ send_ret = [c \in Callers |-> SendReturned("idle", "none")]
    /\ send_log = <<>>

NoExtraction ==
    [op |-> "none", txs |-> <<>>, inclusion_proof |-> <<>>,
     completeness_proof |-> <<>>]

BlockIdle ==
    /\ block = [header |-> [merkle_root |-> <<>>], txdata |-> <<>>]
    /\ extracted = [NoExtraction EXCEPT !.op = "idle"]

NodeIdle ==
    /\ tip = 0
    /\ call = [op |-> "none", height |-> 0]
    /\ pc = "idle"
    /\ block_count = 0
    /\ block_hash = 0
    /\ ret = Returned("idle", 0, NoError, "none")
    /\ calls = NoCalls

ParseIdle ==
    /\ tx = Transaction(<<>>)
    /\ rollup_name = <<>>
    /\ instructions = <<>>
    /\ consumed = 0
    /\ parser = [ParserStart EXCEPT !.result = Outcome("idle")]
    /\ envelope = [prefix |-> <<>>, name |-> <<>>, sig |-> <<>>, pk |-> <<>>,
                   nonce |-> <<>>, chunks |-> <<>>, suffix |-> <<>>,
                   shape |-> "none"]

InitParse ==
    /\ envelope \in Envelopes \cup Degenerate
    /\ tx = TxOf(envelope)
    /\ rollup_name \in RollupNames
    /\ instructions = <<>>
    /\ consumed = 0
    /\ parser = [ParserStart EXCEPT !.result = Outcome("start")]
    /\ AuthIdle
    /\ NodeIdle
    /\ BlockIdle
    /\ SendIdle

\* parsers.rs:19-22: parse_transaction fetches the script of the first input
GetScript ==
    /\ parser.result.status = "start"
    /\ LET s == get_script(tx)
       IN  /\ instructions' = s.script
           /\ parser' = [parser EXCEPT !.result =
                  IF s.status = "Ok" THEN Outcome("running")
                  ELSE Outcome(s.status)]
    /\ UNCHANGED <<tx, rollup_name, consumed, envelope, recovered, nodeVars, blockVars, sendVars>>

\* parsers.rs:35-121: one instructions.next() that yields an instruction
NextInstruction ==
    /\ parser.result.status = "running"
    /\ instructions # <<>>
    /\ parser' = Advance(parser, Head(instructions), rollup_name)
    /\ instructions' = Tail(instructions)
    /\ consumed' = consumed + 1
    /\ UNCHANGED <<tx, rollup_name, envelope, recovered, nodeVars, blockVars, sendVars>>

\* parsers.rs:35, 124-125: instructions.next() yields None
EndOfInstructions ==
    /\ parser.result.status = "running"
    /\ instructions = <<>>
    /\ parser' = Exhausted(parser)
    /\ UNCHANGED <<tx, rollup_name, instructions, consumed, envelope, recovered, nodeVars, blockVars, sendVars>>

NextParse == GetScript \/ NextInstruction \/ EndOfInstructions

SpecParse == InitParse /\ [][NextParse]_vars

----------------------------------------------------------------------------
(* recover_sender_and_hash_from_tx.  The secp256k1 and sha256d calls are   *)
(* library code; the model keeps their interfaces and scales the byte      *)
(* lengths down: a compressed point is 2 bytes (for 33), an uncompressed   *)
(* point 3 bytes (for 65), a compact signature 2 bytes (for 64).           *)

\* the x coordinates that lie on the (toy) curve
CurveXs == { 1 }

\* secp256k1::PublicKey::from_slice (parsers.rs:133): accepts the compressed
\* form (prefix 2 or 3 for the parity of y) and the uncompressed form
\* (prefix 4) of a curve point, and nothing else
PublicKey_from_slice(bytes) ==
    IF Len(bytes) = 2 /\ bytes[1] \in {2, 3} /\ bytes[2] \in CurveXs
    THEN [ok |-> TRUE, x |-> bytes[2], odd |-> bytes[1] - 2]
    ELSE IF Len(bytes) = 3 /\ bytes[1] = 4 /\ bytes[2] \in CurveXs
            /\ bytes[3] \in {0, 1}
    THEN [ok |-> TRUE, x |-> bytes[2], odd |-> bytes[3]]
    ELSE [ok |-> FALSE, x |-> 0, odd |-> 0]

\* PublicKey::serialize (parsers.rs:143): the compressed form
PublicKey_serialize(point) == << 2 + point.odd, point.x >>

\* ecdsa::Signature::from_compact (parsers.rs:134): r and s, each below the
\* group order
Signature_from_compact(bytes) ==
    IF Len(bytes) = 2 /\ bytes[1] < 5 /\ bytes[2] < 5
    THEN [ok |-> TRUE, r |-> bytes[1], s |-> bytes[2]]
    ELSE [ok |-> FALSE, r |-> 0, s |-> 0]

RECURSIVE SumBytes(_)
SumBytes(bytes) ==
    IF bytes = <<>> THEN 0 ELSE Head(bytes) + SumBytes(Tail(bytes))

\* Message::from_hashed_data::<sha256d::Hash> (parsers.rs:136): the digest
\* of the body; a toy hash into 1..4
Sha256d(bytes) == 1 + ((SumBytes(bytes) + 2 * Len(bytes)) % 4)

\* secp.verify_ecdsa (parsers.rs:140): a toy scheme in which the signature
\* of digest d under the key of point P is << 1 + P.odd, d >>
verify_ecdsa(message, sig, point) ==
    sig.r = 1 + point.odd /\ sig.s = message

RecoverOutcome(status, sender, hash) ==
    [status |-> status, sender |-> sender, hash |-> hash]

\* parsers.rs:129-147
recover_sender_and_hash_from_tx(t, name) ==
    LET script == get_script(t)
        parsed == parse_relevant_inscriptions(script.script, name)
        pk == PublicKey_from_slice(parsed.public_key)
        sig == Signature_from_compact(parsed.signature)
        message == Sha256d(parsed.body)
    IN  IF script.status # "Ok" THEN RecoverOutcome(script.status, <<>>, 0)
        ELSE IF parsed.status # "Ok" THEN RecoverOutcome("Err", <<>>, 0)
        ELSE IF ~ pk.ok THEN RecoverOutcome("panic", <<>>, 0)
        ELSE IF ~ sig.ok THEN RecoverOutcome("panic", <<>>, 0)
        ELSE IF verify_ecdsa(message, sig, pk)
        THEN RecoverOutcome("Ok", PublicKey_serialize(pk), message)
        ELSE RecoverOutcome("Err", <<>>, 0)

\* public key pushes: well-formed compressed and uncompressed points, and
\* malformed ones (empty, wrong length, not on the curve)
AuthKeyBytes == { <<2, 1>>, <<3, 1>>, <<4, 1, 1>>, <<>>, <<5, 6>>, <<2, 0>> }

\* signature pushes: well-formed ones, and malformed ones (wrong length,
\* a component not below the group order)
AuthSigBytes == { <<1, 1>>, <<1, 2>>, <<2, 2>>, <<2, 4>>, <<4>>, <<1, 9>>, <<>> }

AuthEnvelopes ==
    [ prefix : {<<>>}, name : {<<7>>, <<7, 8>>}, sig : AuthSigBytes,
      pk : AuthKeyBytes, nonce : {<<9>>},
      chunks : SeqsUpTo({<<1>>, <<2, 3>>}, MaxChunks), suffix : {<<>>},
      shape : {"envelope"} ]

InitAuth ==
    /\ envelope \in AuthEnvelopes \cup Degenerate
    /\ tx = TxOf(envelope)
    /\ rollup_name = <<7>>
    /\ instructions = <<>>
    /\ consumed = 0
    /\ parser = [ParserStart EXCEPT !.result = Outcome("idle")]
    /\ recovered = RecoverOutcome("start", <<>>, 0)
    /\ NodeIdle
    /\ BlockIdle
    /\ SendIdle

\* parsers.rs:129-147: one call of recover_sender_and_hash_from_tx
RecoverSender ==
    /\ recovered.status = "start"
    /\ recovered' = recover_sender_and_hash_from_tx(tx, rollup_name)
    /\ UNCHANGED <<parseVars, nodeVars, blockVars, sendVars>>

NextAuth == RecoverSender

SpecAuth == InitAuth /\ [][NextAuth]_vars

----------------------------------------------------------------------------
(* The node client (crate::rpc::BitcoinNode) as the operations see it.     *)

RPCError(code, message) == [kind |-> "rpc", code |-> code, message |-> message]
\* an error that is no RPCError (transport, decoding)
OtherError == [kind |-> "other", code |-> 0, message |-> "connection refused"]

RpcOk(value) == [ok |-> TRUE, value |-> value, error |-> NoError]
RpcErr(error) == [ok |-> FALSE, value |-> 0, error |-> error]

\* failures any call can end with, whatever the chain's state
Faults == { RpcErr(RPCError(-1, "misc error")), RpcErr(OtherError) }

\* the hash of the block at a height, and the block of a hash; a block is
\* identified by its height
BlockHashAt(height) == height + 100
BlockOf(hash) == hash - 100

\* get_block_count() -> the tip height
NodeGetBlockCount == { RpcOk(tip) } \cup Faults

\* get_block_hash(height): fails with the not-found class (RPC error code
\* -8) when the height exceeds the tip
NodeGetBlockHash(height) ==
    (IF height > tip
     THEN { RpcErr(RPCError(-8, "Block height out of range")) }
     ELSE { RpcOk(BlockHashAt(height)) })
    \cup Faults

\* get_block(hash, rollup_name) -> the block
NodeGetBlock(hash) == { RpcOk(BlockOf(hash)) } \cup Faults

\* the chain advances by one block
Mine ==
    /\ pc \notin {"idle", "done"}
    /\ tip < MaxU64
    /\ tip' = tip + 1
    /\ UNCHANGED <<call, pc, block_count, block_hash, ret, calls>>
    /\ UNCHANGED <<parseVars, recovered, blockVars, sendVars>>

----------------------------------------------------------------------------
(* get_finalized_at (service.rs:112-132)                                   *)

FINALITY_DEPTH == 4

\* u64 addition: the sums the build can produce.  With overflow checks
\* (debug) an overflowing sum aborts the process; without (release) it wraps.
U64Add(a, b) ==
    IF a + b <= MaxU64 THEN { [panic |-> FALSE, value |-> a + b] }
    ELSE { [panic |-> TRUE, value |-> 0],
           [panic |-> FALSE, value |-> (a + b) % (MaxU64 + 1)] }

FinalityReached_NoDepth(count, height, sum) == count >= height
\* service.rs:120: block_count >= height + FINALITY_DEPTH, sum being the
\* value of height + FINALITY_DEPTH
FinalityReached(count, height, sum) == count >= sum

\* anyhow's `?`: the error is returned as it is
Propagate(error, at) == Returned("Err", 0, error, at)

\* service.rs:117-122: one get_block_count poll and the finality test
FinPoll ==
    /\ call.op = "get_finalized_at" /\ pc = "poll"
    /\ calls.count < MaxPolls
    /\ \E r \in NodeGetBlockCount :
         IF ~ r.ok
         THEN /\ ret' = Propagate(r.error, "get_block_count")
              /\ pc' = "done"
              /\ calls' = [calls EXCEPT !.count = @ + 1]
              /\ UNCHANGED block_count
         ELSE \E sum \in U64Add(call.height, FINALITY_DEPTH) :
              /\ block_count' = r.value
              /\ IF sum.panic
                 THEN /\ ret' = Returned("panic", 0, NoError, "overflow")
                      /\ pc' = "done"
                      /\ calls' = [calls EXCEPT !.count = @ + 1]
                 ELSE IF FinalityReached(r.value, call.height, sum.value)
                 THEN /\ pc' = "hash"
                      /\ calls' = [calls EXCEPT !.count = @ + 1,
                                     !.satisfied = TRUE,
                                     !.sat_count = calls.count + 1,
                                     !.sat_sleep = calls.sleep]
                      /\ UNCHANGED ret
                 ELSE /\ pc' = "sleep"
                      /\ calls' = [calls EXCEPT !.count = @ + 1]
                      /\ UNCHANGED ret
    /\ UNCHANGED <<tip, call, block_hash>>
    /\ UNCHANGED <<parseVars, recovered, blockVars, sendVars>>

FinSleep_NoRetry ==
    /\ call.op = "get_finalized_at" /\ pc = "sleep"
    /\ calls' = [calls EXCEPT !.sleep = @ + 1]
    /\ pc' = "halt"
    /\ UNCHANGED <<tip, call, block_count, block_hash, ret>>
    /\ UNCHANGED <<parseVars, recovered, blockVars, sendVars>>
\* service.rs:124-125: sleep POLLING_INTERVAL, then poll again
FinSleep ==
    /\ call.op = "get_finalized_at" /\ pc = "sleep"
    /\ calls' = [calls EXCEPT !.sleep = @ + 1]
    /\ pc' = "poll"
    /\ UNCHANGED <<tip, call, block_count, block_hash, ret>>
    /\ UNCHANGED <<parseVars, recovered, blockVars, sendVars>>

\* service.rs:128: client.get_block_hash(height).await?
FinGetBlockHash ==
    /\ call.op = "get_finalized_at" /\ pc = "hash"
    /\ \E r \in NodeGetBlockHash(call.height) :
         /\ calls' = [calls EXCEPT !.hash = @ + 1,
                        !.notfound = @ + (IF ~ r.ok /\ r.error.code = -8
                                          THEN 1 ELSE 0),
                        !.hash_error = r.error]
         /\ IF r.ok
            THEN block_hash' = r.value /\ pc' = "block" /\ UNCHANGED ret
            ELSE /\ ret' = Propagate(r.error, "get_block_hash")
                 /\ pc' = "done"
                 /\ UNCHANGED block_hash
    /\ UNCHANGED <<tip, call, block_count>>
    /\ UNCHANGED <<parseVars, recovered, blockVars, sendVars>>

\* service.rs:129-131 and 166-168: client.get_block(block_hash, ..).await?
\* and the return of the block
GetBlock ==
    /\ call.op \in {"get_finalized_at", "get_block_at"} /\ pc = "block"
    /\ \E r \in NodeGetBlock(block_hash) :
         /\ calls' = [calls EXCEPT !.block = @ + 1]
         /\ ret' = IF r.ok THEN Returned("Ok", r.value, NoError, "get_block")
                   ELSE Propagate(r.error, "get_block")
         /\ pc' = "done"
    /\ UNCHANGED <<tip, call, block_count, block_hash>>
    /\ UNCHANGED <<parseVars, recovered, blockVars, sendVars>>

----------------------------------------------------------------------------
(* get_block_at (service.rs:136-169)                                       *)

IsNotFound_AnyRpcError(error) == error.kind = "rpc"
\* service.rs:146-148: the error is an RPCError and its code is -8
IsNotFound(error) == error.kind = "rpc" /\ error.code = -8

\* service.rs:152-159: an RPCError of another code is returned as a new
\* error made of its message; any other error is returned as it is
FatalError(error) ==
    IF error.kind = "rpc"
    THEN [kind |-> "msg", code |-> 0, message |-> error.message]
    ELSE error

\* service.rs:143-164: one get_block_hash attempt and its classification
AtGetBlockHash ==
    /\ call.op = "get_block_at" /\ pc = "hash"
    /\ calls.hash < MaxPolls
    /\ \E r \in NodeGetBlockHash(call.height) :
         /\ calls' = [calls EXCEPT !.hash = @ + 1,
                        !.notfound = @ + (IF ~ r.ok /\ r.error.code = -8
                                          THEN 1 ELSE 0),
                        !.hash_error = r.error]
         /\ IF r.ok
            THEN block_hash' = r.value /\ pc' = "block" /\ UNCHANGED ret
            ELSE IF IsNotFound(r.error)
            THEN pc' = "sleep" /\ UNCHANGED <<block_hash, ret>>
            ELSE /\ ret' = Returned("Err", 0, FatalError(r.error),
                                    "get_block_hash")
                 /\ pc' = "done"
                 /\ UNCHANGED block_hash
    /\ UNCHANGED <<tip, call, block_count>>
    /\ UNCHANGED <<parseVars, recovered, blockVars, sendVars>>

\* service.rs:149-151: sleep POLLING_INTERVAL, then ask again
AtSleep ==
    /\ call.op = "get_block_at" /\ pc = "sleep"
    /\ calls' = [calls EXCEPT !.sleep = @ + 1]
    /\ pc' = "hash"
    /\ UNCHANGED <<tip, call, block_count, block_hash, ret>>
    /\ UNCHANGED <<parseVars, recovered, blockVars, sendVars>>

InitNode ==
    /\ ParseIdle
    /\ AuthIdle
    /\ BlockIdle
    /\ SendIdle
    /\ tip \in 0..MaxU64
    /\ call \in [op : {"get_finalized_at", "get_block_at"}, height : 0..MaxU64]
    /\ pc = IF call.op = "get_finalized_at" THEN "poll" ELSE "hash"
    /\ block_count = 0
    /\ block_hash = 0
    /\ ret = Returned("running", 0, NoError, "none")
    /\ calls = NoCalls

NextNode ==
    \/ Mine
    \/ FinPoll \/ FinSleep \/ FinGetBlockHash
    \/ AtGetBlockHash \/ AtSleep
    \/ GetBlock

SpecNode == InitNode /\ [][NextNode]_vars

\* the operations are tasks the runtime keeps scheduling: a step that stays
\* possible is taken; the chain advances or not as it pleases
SpecNodeLive ==
    /\ SpecNode
    /\ WF_vars(FinPoll) /\ WF_vars(FinSleep) /\ WF_vars(FinGetBlockHash)
    /\ WF_vars(AtGetBlockHash) /\ WF_vars(AtSleep) /\ WF_vars(GetBlock)

----------------------------------------------------------------------------
(* Blocks (crate::spec::block::BitcoinBlock): a header with its merkle     *)
(* root, and the transactions, each annotated at fetch time with its       *)
(* sender and blob hash.  A transaction id is 3 bytes wide (for 32).       *)

\* Transaction::txid(): the double hash of the serialized transaction; the
\* model's transactions carry it in a field
Txid(t) == t.txid

BlockTransaction(txid, witness) == [input |-> << witness >>, txid |-> txid]

\* compress_blob / decompress_blob (helpers/builders.rs): a one-byte header
compress_blob(blob) == <<8>> \o blob
decompress_blob(bytes) ==
    IF bytes # <<>> /\ Head(bytes) = 8 THEN Tail(bytes) ELSE <<>>

\* sign_blob_with_private_key (helpers/builders.rs): the signature of the
\* double hash of the compressed blob, and the sequencer's public key
SequencerKey == [ok |-> TRUE, x |-> 1, odd |-> 0]
sign_blob_with_private_key(blob) ==
    [signature |-> << 1 + SequencerKey.odd, Sha256d(blob) >>,
     public_key |-> PublicKey_serialize(SequencerKey)]

\* the reveal script the transaction builder embeds for a compressed blob
\* split into chunks
RevealScript(name, chunks, nonce) ==
    LET signed == sign_blob_with_private_key(Flatten(chunks))
    IN  EnvelopeScript([name |-> name, sig |-> signed.signature,
                        pk |-> signed.public_key, nonce |-> nonce,
                        chunks |-> chunks])

\* BitcoinNode::get_block annotates each transaction with the sender and
\* hash that recover_sender_and_hash_from_tx yields, if it yields any
Annotate(t, name) ==
    LET r == recover_sender_and_hash_from_tx(t, name)
    IN  [transaction |-> t,
         sender |-> IF r.status = "Ok" THEN r.sender ELSE <<>>,
         blob_hash |-> IF r.status = "Ok" THEN r.hash ELSE 0]

\* the rollup name the service is configured with ("sov-btc")
ServiceRollupName == <<7>>

\* an envelope of the rollup whose signature is well-formed and does not
\* verify
ForgedScript ==
    EnvelopeScript([name |-> ServiceRollupName, sig |-> <<2, 1>>,
                    pk |-> PublicKey_serialize(SequencerKey), nonce |-> <<9>>,
                    chunks |-> << <<8, 2>> >>])

\* the transactions blocks are made of: envelopes of the rollup with and
\* without a two-zero-byte id, an envelope of another rollup, transactions
\* without a tapscript, and an envelope of the rollup with a forged signature
ChainTransactions ==
    { BlockTransaction(<<0, 0, 1>>,
          Tapscript(RevealScript(ServiceRollupName, << <<8, 1>> >>, <<9>>))),
      BlockTransaction(<<0, 0, 2>>,
          Tapscript(RevealScript(ServiceRollupName, << <<8>>, <<2, 3>> >>, <<>>))),
      BlockTransaction(<<0, 1, 3>>,
          Tapscript(RevealScript(ServiceRollupName, << <<8>> >>, <<9>>))),
      BlockTransaction(<<0, 0, 4>>,
          Tapscript(RevealScript(<<7, 8>>, << <<8, 1>> >>, <<9>>))),
      BlockTransaction(<<5, 0, 5>>, NoTapscript),
      BlockTransaction(<<0, 0, 6>>, NoTapscript),
      BlockTransaction(<<0, 0, 7>>, Tapscript(ForgedScript)) }

\* merkle_tree::calculate_root: pairwise double-hash reduction, the last
\* node duplicated when a level has an odd count; the hash of a pair is
\* modelled as the pair itself
MerkleLeaf(id) == << "leaf", id >>
MerkleNode(l, r) == << "node", l, r >>

MerkleLevel(nodes) ==
    [ i \in 1..((Len(nodes) + 1) \div 2) |->
        MerkleNode(nodes[2 * i - 1],
                   IF 2 * i <= Len(nodes) THEN nodes[2 * i]
                   ELSE nodes[2 * i - 1]) ]

RECURSIVE MerkleReduce(_)
MerkleReduce(nodes) ==
    IF Len(nodes) = 1 THEN nodes[1] ELSE MerkleReduce(MerkleLevel(nodes))

calculate_root(ids) == MerkleReduce([i \in 1..Len(ids) |-> MerkleLeaf(ids[i])])

Reverse(q) == [i \in 1..Len(q) |-> q[Len(q) + 1 - i]]

\* the non-empty sequences of distinct elements of S of length at most n
DistinctSeqs(S, n) ==
    { q \in SeqsUpTo(S, n) :
        q # <<>> /\ \A i, j \in 1..Len(q) : i # j => q[i] # q[j] }

\* the blocks a node may serve: the header's merkle root is that of the
\* transactions in block order, or (a node is not trusted) that of another
\* order
BlockWith(q, order) ==
    [header |-> [merkle_root |-> calculate_root(
                    [i \in 1..Len(order) |-> Txid(order[i])])],
     txdata |-> [i \in 1..Len(q) |-> Annotate(q[i], ServiceRollupName)]]

Blocks ==
    UNION { { BlockWith(q, q), BlockWith(q, Reverse(q)) } :
            q \in DistinctSeqs(ChainTransactions, MaxTxs) }

----------------------------------------------------------------------------
(* extract_relevant_txs, get_extraction_proof and                          *)
(* extract_relevant_txs_with_proof (service.rs:172-261)                    *)

BlobWithSender_Rehashed(blob, sender, hash) ==
    [blob |-> blob, sender |-> sender, hash |-> Sha256d(blob)]
\* service.rs:194-198: BlobWithSender::new(decompressed_blob, tx.sender.clone(),
\* tx.blob_hash)
BlobWithSender(blob, sender, hash) ==
    [blob |-> blob, sender |-> sender, hash |-> hash]

RECURSIVE extract_relevant_txs(_, _)
\* service.rs:172-204: one BlobWithSender per transaction that parses
extract_relevant_txs(txdata, name) ==
    IF txdata = <<>> THEN <<>>
    ELSE LET t == Head(txdata)
             parsed_inscription == parse_transaction(t.transaction, name)
             rest == extract_relevant_txs(Tail(txdata), name)
         IN  IF parsed_inscription.status = "Ok"
             THEN << BlobWithSender(decompress_blob(parsed_inscription.body),
                                    t.sender, t.blob_hash) >> \o rest
             ELSE rest

InCompleteness_FirstByte(tx_hash) == tx_hash[1] = 0
\* service.rs:228: tx_hash[0..2] == [0, 0]
InCompleteness(tx_hash) == tx_hash[1] = 0 /\ tx_hash[2] = 0

RECURSIVE CompletenessOf(_)
\* service.rs:219, 228-230: the transactions pushed to completeness_proof
CompletenessOf(txdata) ==
    IF txdata = <<>> THEN <<>>
    ELSE (IF InCompleteness(Txid(Head(txdata).transaction))
          THEN << Head(txdata).transaction >> ELSE <<>>)
         \o CompletenessOf(Tail(txdata))

InclusionOf_Sampled(txdata) ==
    LET kept == CompletenessOf(txdata)
    IN  [i \in 1..Len(kept) |-> Txid(kept[i])]
\* service.rs:221-234: the ids collected by the map over block.txdata
InclusionOf(txdata) == [i \in 1..Len(txdata) |-> Txid(txdata[i].transaction)]

\* service.rs:206-239
get_extraction_proof(b) ==
    [inclusion_proof |-> [txs |-> InclusionOf(b.txdata)],
     completeness_proof |-> CompletenessOf(b.txdata)]

InitBlock ==
    /\ ParseIdle
    /\ AuthIdle
    /\ NodeIdle
    /\ SendIdle
    /\ block \in Blocks
    /\ extracted = NoExtraction

\* service.rs:172-204: a call of extract_relevant_txs
ExtractRelevantTxs ==
    /\ extracted.op = "none"
    /\ extracted' = [op |-> "extract_relevant_txs",
                     txs |-> extract_relevant_txs(block.txdata, ServiceRollupName),
                     inclusion_proof |-> <<>>, completeness_proof |-> <<>>]
    /\ UNCHANGED <<block, parseVars, recovered, nodeVars, sendVars>>

\* service.rs:206-239: a call of get_extraction_proof
GetExtractionProof ==
    /\ extracted.op = "none"
    /\ LET proof == get_extraction_proof(block)
       IN  extracted' = [op |-> "get_extraction_proof", txs |-> <<>>,
                         inclusion_proof |-> proof.inclusion_proof.txs,
                         completeness_proof |-> proof.completeness_proof]
    /\ UNCHANGED <<block, parseVars, recovered, nodeVars, sendVars>>

\* service.rs:243-261: a call of extract_relevant_txs_with_proof
ExtractRelevantTxsWithProof ==
    /\ extracted.op = "none"
    /\ LET txs == extract_relevant_txs(block.txdata, ServiceRollupName)
           proof == get_extraction_proof(block)
       IN  extracted' = [op |-> "extract_relevant_txs_with_proof", txs |-> txs,
                         inclusion_proof |-> proof.inclusion_proof.txs,
                         completeness_proof |-> proof.completeness_proof]
    /\ UNCHANGED <<block, parseVars, recovered, nodeVars, sendVars>>

NextBlock == ExtractRelevantTxs \/ GetExtractionProof \/ ExtractRelevantTxsWithProof

SpecBlock == InitBlock /\ [][NextBlock]_vars

----------------------------------------------------------------------------
(* send_transaction (service.rs:263-334), the node's wallet and mempool,   *)
(* and the checkpoint files.                                               *)

\* a transaction of the pipeline: the commit spends an unspent output, the
\* reveal spends the commit; core is what the id is computed from
CommitTx(utxo, blob) ==
    [kind |-> "commit", core |-> <<utxo, blob>>, witness |-> "unsigned"]
RevealTx(commit, blob) ==
    [kind |-> "reveal", core |-> <<commit.core, blob>>, witness |-> "script"]

\* Transaction::txid(): computed over the transaction without its witness
TxidOf(t) == << "txid", t.kind, t.core >>

\* encode::serialize and encode_hex: the raw bytes, and their hex string
Serialize(t) == << "raw", t >>
EncodeHex(raw) == << "hex", raw >>
DecodeHex(hex) == hex[2][2]

\* sign_raw_transaction_with_wallet: the wallet signs the inputs (segwit
\* outputs of the wallet: the signature goes to the witness)
WalletSign(hex) ==
    EncodeHex(Serialize([DecodeHex(hex) EXCEPT !.witness = "signed"]))

\* a failure any RPC of the pipeline can end with
SendFaults == { "rpc error" }

\* send_raw_transaction: the node accepts a signed commit whose input is
\* unspent, and a reveal whose commit it has accepted and that was not
\* revealed before
NodeAccepts(t) ==
    IF t.kind = "commit"
    THEN /\ t.witness = "signed"
         /\ \E i \in 1..Len(wallet) : wallet[i] = t.core[1]
    ELSE /\ << "txid", "commit", t.core[1] >> \in mempool
         /\ TxidOf(t) \notin mempool

\* the wallet's unspent outputs after the node accepted t
WalletAfter(t) ==
    IF t.kind = "commit"
    THEN SelectSeq(wallet, LAMBDA u : u # t.core[1])
    ELSE wallet

\* get_satpoint_to_inscribe(&utxos[0])
get_satpoint_to_inscribe(utxo) == utxo

\* create_inscription_transactions: the commit spends the satpoint's output
\* and funds the reveal, which carries the blob
create_inscription_transactions(blob, satpoint) ==
    LET commit == CommitTx(satpoint, blob)
    IN  [commit |-> commit, reveal |-> RevealTx(commit, blob)]

\* write_reveal_tx(bytes, commit txid): the mapping after the write
write_reveal_tx(raw, txid) ==
    { f \in files : f.key # txid } \cup { [key |-> txid, value |-> raw] }

StepAfter_RevealBeforeCheckpoint(current) ==
    CASE current = "get_change_addresses" -> "get_utxos"
      [] current = "get_utxos" -> "estimate_smart_fee"
      [] current = "estimate_smart_fee" -> "sign_commit"
      [] current = "sign_commit" -> "send_commit"
      [] current = "send_commit" -> "send_reveal"
      [] current = "send_reveal" -> "write_reveal_tx"
      [] OTHER -> "done"
\* the order of the awaited steps of send_transaction (service.rs:276-329)
StepAfter(current) ==
    CASE current = "get_change_addresses" -> "get_utxos"
      [] current = "get_utxos" -> "estimate_smart_fee"
      [] current = "estimate_smart_fee" -> "sign_commit"
      [] current = "sign_commit" -> "send_commit"
      [] current = "send_commit" -> "write_reveal_tx"
      [] current = "write_reveal_tx" -> "send_reveal"
      [] OTHER -> "done"

\* the call c leaves the pipeline with a result
SendFinish(c, status, at) ==
    /\ send_ret' = [send_ret EXCEPT ![c] = SendReturned(status, at)]
    /\ send_pc' = [send_pc EXCEPT ![c] = "done"]

\* the call c goes on to the step after `current`, or returns Ok(()) after
\* the last one
SendAdvance(c, current) ==
    IF StepAfter(current) = "done"
    THEN SendFinish(c, "Ok", "none")
    ELSE /\ send_pc' = [send_pc EXCEPT ![c] = StepAfter(current)]
         /\ UNCHANGED send_ret

LogEvent(c, what, ok) == [caller |-> c, what |-> what, ok |-> ok]

\* service.rs:276: client.get_change_addresses().await?
GetChangeAddresses(c) ==
    /\ send_pc[c] = "get_change_addresses"
    /\ \/ SendAdvance(c, "get_change_addresses")
       \/ \E f \in SendFaults : SendFinish(c, "Err", "get_change_addresses")
    /\ UNCHANGED <<config, wallet, mempool, files, send_local, send_log>>
    /\ UNCHANGED <<parseVars, recovered, nodeVars, blockVars>>

\* service.rs:279-288: client.get_utxos().await?, then the inscription
\* point from utxos[0] (indexing an empty list aborts), the destination
\* address checked against the network, and the blob signed (a failure
\* aborts: expect)
GetUtxos(c) ==
    /\ send_pc[c] = "get_utxos"
    /\ \/ /\ send_local' = [send_local EXCEPT ![c].utxos = wallet,
               ![c].satpoint = IF wallet = <<>> THEN 0
                               ELSE get_satpoint_to_inscribe(wallet[1])]
          /\ IF wallet = <<>> THEN SendFinish(c, "panic", "get_satpoint")
             ELSE IF ~ config.address_ok
             THEN SendFinish(c, "Err", "destination_address")
             ELSE IF ~ config.key_ok
             THEN SendFinish(c, "panic", "sign_blob")
             ELSE SendAdvance(c, "get_utxos")
       \/ /\ \E f \in SendFaults : SendFinish(c, "Err", "get_utxos")
          /\ UNCHANGED send_local
    /\ UNCHANGED <<config, wallet, mempool, files, send_log>>
    /\ UNCHANGED <<parseVars, recovered, nodeVars, blockVars>>

\* service.rs:291-306: client.estimate_smart_fee().await?, then
\* create_inscription_transactions(..)?
EstimateSmartFee(c) ==
    /\ send_pc[c] = "estimate_smart_fee"
    /\ \/ /\ LET built == create_inscription_transactions(
                             compress_blob(<<c>>), send_local[c].satpoint)
             IN  send_local' = [send_local EXCEPT ![c].commit = built.commit,
                                                  ![c].reveal = built.reveal]
          /\ SendAdvance(c, "estimate_smart_fee")
       \/ /\ SendFinish(c, "Err", "create_inscription_transactions")
          /\ UNCHANGED send_local
       \/ /\ \E f \in SendFaults : SendFinish(c, "Err", "estimate_smart_fee")
          /\ UNCHANGED send_local
    /\ UNCHANGED <<config, wallet, mempool, files, send_log>>
    /\ UNCHANGED <<parseVars, recovered, nodeVars, blockVars>>

\* service.rs:309-312: client.sign_raw_transaction_with_wallet(..).await?
SignCommit(c) ==
    /\ send_pc[c] = "sign_commit"
    /\ \/ /\ send_local' = [send_local EXCEPT ![c].signed =
                DecodeHex(WalletSign(EncodeHex(Serialize(send_local[c].commit))))]
          /\ SendAdvance(c, "sign_commit")
       \/ /\ \E f \in SendFaults : SendFinish(c, "Err", "sign_commit")
          /\ UNCHANGED send_local
    /\ UNCHANGED <<config, wallet, mempool, files, send_log>>
    /\ UNCHANGED <<parseVars, recovered, nodeVars, blockVars>>

\* service.rs:315: client.send_raw_transaction(signed_raw_commit_tx).await?
SendCommit(c) ==
    /\ send_pc[c] = "send_commit"
    /\ LET t == send_local[c].signed
       IN  \/ /\ NodeAccepts(t)
              /\ mempool' = mempool \cup { TxidOf(t) }
              /\ wallet' = WalletAfter(t)
              /\ send_log' = Append(send_log, LogEvent(c, "send_commit", TRUE))
              /\ SendAdvance(c, "send_commit")
           \/ \* the node refuses the transaction, or the call fails
              /\ send_log' = Append(send_log, LogEvent(c, "send_commit", FALSE))
              /\ SendFinish(c, "Err", "send_commit")
              /\ UNCHANGED <<mempool, wallet>>
    /\ UNCHANGED <<config, files, send_local>>
    /\ UNCHANGED <<parseVars, recovered, nodeVars, blockVars>>

WriteRevealTx_Recoverable(c) ==
    /\ send_pc[c] = "write_reveal_tx"
    /\ \/ /\ files' = write_reveal_tx(Serialize(send_local[c].reveal),
                                      TxidOf(send_local[c].commit))
          /\ send_log' = Append(send_log, LogEvent(c, "write_reveal_tx", TRUE))
          /\ SendAdvance(c, "write_reveal_tx")
       \/ /\ SendFinish(c, "Err", "write_reveal_tx")
          /\ UNCHANGED <<files, send_log>>
    /\ UNCHANGED <<config, wallet, mempool, send_local>>
    /\ UNCHANGED <<parseVars, recovered, nodeVars, blockVars>>
\* service.rs:318-324: the reveal transaction is serialized and written
\* under the id of the unsigned commit transaction; a failed write aborts
WriteRevealTx(c) ==
    /\ send_pc[c] = "write_reveal_tx"
    /\ \/ /\ files' = write_reveal_tx(Serialize(send_local[c].reveal),
                                      TxidOf(send_local[c].commit))
          /\ send_log' = Append(send_log, LogEvent(c, "write_reveal_tx", TRUE))
          /\ SendAdvance(c, "write_reveal_tx")
       \/ /\ SendFinish(c, "panic", "write_reveal_tx")
          /\ UNCHANGED <<files, send_log>>
    /\ UNCHANGED <<config, wallet, mempool, send_local>>
    /\ UNCHANGED <<parseVars, recovered, nodeVars, blockVars>>

\* service.rs:327-333: client.send_raw_transaction(reveal hex).await?, Ok(())
SendReveal(c) ==
    /\ send_pc[c] = "send_reveal"
    /\ LET t == DecodeHex(EncodeHex(Serialize(send_local[c].reveal)))
       IN  \/ /\ NodeAccepts(t)
              /\ mempool' = mempool \cup { TxidOf(t) }
              /\ send_log' = Append(send_log, LogEvent(c, "send_reveal", TRUE))
              /\ SendAdvance(c, "send_reveal")
           \/ \* the node refuses the transaction, or the call fails
              /\ send_log' = Append(send_log, LogEvent(c, "send_reveal", FALSE))
              /\ SendFinish(c, "Err", "send_reveal")
              /\ UNCHANGED mempool
    /\ UNCHANGED <<config, wallet, files, send_local>>
    /\ UNCHANGED <<parseVars, recovered, nodeVars, blockVars>>

InitSend ==
    /\ ParseIdle
    /\ AuthIdle
    /\ NodeIdle
    /\ BlockIdle
    /\ config \in [address_ok : BOOLEAN, key_ok : BOOLEAN]
    /\ wallet \in { <<>>, <<11>>, <<11, 12>> }
    /\ mempool = {}
    /\ files = {}
    /\ send_pc = [c \in Callers |-> "get_change_addresses"]
    /\ send_local = [c \in Callers |-> NoLocal]
    /\ send_ret = [c \in Callers |-> SendReturned("running", "none")]
    /\ send_log = <<>>

NextSend ==
    \E c \in Callers :
       \/ GetChangeAddresses(c) \/ GetUtxos(c) \/ EstimateSmartFee(c)
       \/ SignCommit(c) \/ SendCommit(c) \/ WriteRevealTx(c) \/ SendReveal(c)

SpecSend == InitSend /\ [][NextSend]_vars

----------------------------------------------------------------------------
(* The whole adapter: one of the components runs *)

Init == InitParse \/ InitAuth \/ InitNode \/ InitBlock \/ InitSend

Next == NextParse \/ NextAuth \/ NextNode \/ NextBlock \/ NextSend

Spec == Init /\ [][Next]_vars

----------------------------------------------------------------------------
(* Properties *)

\* C1: an envelope built with the grammar under name R, for any signature,
\* public key, nonce and body chunks, and queried with the same name R,
\* decodes to exactly body = chunk_1 ++ .. ++ chunk_n, signature = S,
\* public_key = P.
C1_RoundTrip ==
    ( /\ parser.result.status \notin {"start", "running"}
      /\ envelope.shape = "envelope"
      /\ envelope.prefix = <<>> /\ envelope.suffix = <<>>
      /\ rollup_name = envelope.name )
    => parser.result =
         ParsedInscription(Flatten(envelope.chunks), envelope.sig, envelope.pk)

\* a body of two non-empty chunks was decoded from a bare envelope
C1_Witness ==
    /\ parser.result.status = "Ok"
    /\ envelope.shape = "envelope"
    /\ envelope.prefix = <<>> /\ envelope.suffix = <<>>
    /\ rollup_name = envelope.name
    /\ Len(envelope.chunks) = 2
    /\ envelope.chunks[1] # <<>> /\ envelope.chunks[2] # <<>>
    /\ parser.result.body = envelope.chunks[1] \o envelope.chunks[2]

\* C2: an envelope built under name R1 and decoded with a different name R2
\* fails to decode: the attempt at the envelope's start never gets past the
\* name push, no later position is accepted, and the result is an error.
C2_Isolation ==
    ( /\ envelope.shape = "envelope"
      /\ envelope.prefix = <<>> /\ envelope.suffix = <<>>
      /\ rollup_name # envelope.name )
    => /\ parser.step < 4
       /\ parser.result.status # "Ok"
       /\ parser.result.status \notin {"start", "running"}
            => parser.result = ParseErr

\* the whole script of an envelope for another name was scanned, with later
\* body-tag pushes (the public key and a chunk) having started attempts
C2_Witness ==
    /\ parser.result = ParseErr
    /\ envelope.shape = "envelope"
    /\ envelope.prefix = <<>> /\ envelope.suffix = <<>>
    /\ rollup_name # envelope.name
    /\ envelope.pk = BODY_TAG
    /\ Len(envelope.chunks) = 2 /\ envelope.chunks[1] = BODY_TAG
    /\ consumed = Len(ScriptOf(envelope))

\* the decoded signature verifies against the double-hash of the decoded
\* body under the decoded public key
SignatureVerifies(parsed) ==
    LET pk == PublicKey_from_slice(parsed.public_key)
        sig == Signature_from_compact(parsed.signature)
    IN  pk.ok /\ sig.ok /\ verify_ecdsa(Sha256d(parsed.body), sig, pk)

\* C3: for a transaction whose script decodes to (body, signature,
\* public_key), recover_sender_and_hash_from_tx succeeds iff the signature
\* verifies against the double-hash of the body under public_key; on success
\* it returns exactly (public_key bytes, digest); otherwise it returns an
\* error and nothing else.
C3_AuthenticationSoundness ==
    LET parsed == parse_transaction(tx, rollup_name)
    IN  (recovered.status # "start" /\ parsed.status = "Ok")
        => IF SignatureVerifies(parsed)
           THEN recovered =
                  RecoverOutcome("Ok", parsed.public_key, Sha256d(parsed.body))
           ELSE recovered = RecoverOutcome("Err", <<>>, 0)

\* C4: malformed public key or signature bytes are a recoverable decode
\* failure: recover_sender_and_hash_from_tx never aborts the process on a
\* transaction whose script decodes.
C4_MalformedIsRecoverable ==
    (recovered.status # "start"
       /\ parse_transaction(tx, rollup_name).status = "Ok")
    => recovered.status \in {"Ok", "Err"}

\* C5: finality gate of get_finalized_at(height), for heights where
\* height + 4 is representable: the loop is left only by a poll that observed
\* a tip of at least height + 4; a poll that observed less is followed by a
\* sleep and another poll; after the satisfying poll there is exactly one
\* get_block_hash and one get_block call on the way to the returned block,
\* and no further get_block_count call or sleep.
C5_FinalityGate ==
    (call.op = "get_finalized_at" /\ call.height + FINALITY_DEPTH <= MaxU64)
    => /\ calls.satisfied
          => /\ block_count >= call.height + FINALITY_DEPTH
             /\ calls.count = calls.sat_count
             /\ calls.sleep = calls.sat_sleep
             /\ calls.sleep = calls.count - 1
             /\ calls.hash <= 1 /\ calls.block <= calls.hash
       /\ ~ calls.satisfied
          => /\ calls.hash = 0 /\ calls.block = 0
             /\ ret.status # "Ok"
             /\ pc = "sleep"
                  => /\ block_count < call.height + FINALITY_DEPTH
                     /\ calls.sleep = calls.count - 1
             /\ pc = "poll" => calls.sleep = calls.count
       /\ ret.status = "Ok"
          => /\ calls.satisfied
             /\ calls.hash = 1 /\ calls.block = 1

\* a block was returned after two unsatisfied polls, each followed by a sleep
C5_Witness ==
    /\ call.op = "get_finalized_at"
    /\ call.height + FINALITY_DEPTH <= MaxU64
    /\ ret.status = "Ok"
    /\ calls.sleep = 2 /\ calls.count = 3
    /\ calls.hash = 1 /\ calls.block = 1

\* C6: not-found retry of get_block_at(height): every not-found answer
\* (RPC error code -8) of get_block_hash is followed by one sleep and one
\* more get_block_hash call, so after k not-found answers and a success the
\* operation has made k + 1 get_block_hash calls, k sleeps and then one
\* get_block call; any other get_block_hash error ends the operation at
\* once with an error: no retry, no sleep and no get_block call follow it.
C6_NotFoundRetry ==
    call.op = "get_block_at"
    => /\ calls.sleep <= calls.notfound
       /\ pc = "sleep" => calls.sleep = calls.notfound - 1
                          /\ calls.hash = calls.notfound
       /\ pc = "hash" => calls.sleep = calls.notfound
                         /\ calls.hash = calls.notfound
       /\ pc = "block" => /\ calls.hash = calls.notfound + 1
                          /\ calls.sleep = calls.notfound
                          /\ calls.block = 0
       /\ ret.status = "Ok"
          => /\ calls.hash = calls.notfound + 1
             /\ calls.sleep = calls.notfound
             /\ calls.block = 1
       /\ (ret.status = "Err" /\ ret.at = "get_block_hash")
          => /\ pc = "done"
             /\ calls.hash = calls.notfound + 1
             /\ calls.sleep = calls.notfound
             /\ calls.block = 0

\* the block was returned after exactly two not-found answers
C6_Witness ==
    /\ call.op = "get_block_at"
    /\ ret.status = "Ok"
    /\ calls.notfound = 2 /\ calls.sleep = 2
    /\ calls.hash = 3 /\ calls.block = 1

\* the operation that ran returned proofs
HasProofs ==
    extracted.op \in {"get_extraction_proof", "extract_relevant_txs_with_proof"}

\* C7: the inclusion proof is the sequence of the ids of the block's
\* transactions in block order: as long as the block, its i-th entry the id
\* of the i-th transaction; so for a block whose header merkle root was
\* computed from its transactions in order, the root recomputed from the
\* inclusion proof equals the header's.
C7_InclusionProof ==
    HasProofs
    => /\ Len(extracted.inclusion_proof) = Len(block.txdata)
       /\ \A i \in 1..Len(block.txdata) :
            extracted.inclusion_proof[i] = Txid(block.txdata[i].transaction)
       /\ block.header.merkle_root =
            calculate_root([i \in 1..Len(block.txdata) |->
                              Txid(block.txdata[i].transaction)])
          => calculate_root(extracted.inclusion_proof) = block.header.merkle_root

\* proofs of a block of three transactions, only some of them sampled,
\* whose header root is that of the block order
C7_Witness ==
    /\ HasProofs
    /\ Len(block.txdata) = 3
    /\ Len(extracted.completeness_proof) = 1
    /\ calculate_root(extracted.inclusion_proof) = block.header.merkle_root

\* the positions of the block whose transaction id starts with two zero bytes
ZeroPrefixed ==
    { i \in 1..Len(block.txdata) :
        LET id == Txid(block.txdata[i].transaction)
        IN  id[1] = 0 /\ id[2] = 0 }

\* the position in the block of a transaction of the completeness proof
PositionOf(t) ==
    CHOOSE i \in 1..Len(block.txdata) : block.txdata[i].transaction = t

\* C8: the completeness proof holds exactly the K transactions of the block
\* whose id starts with two zero bytes, in block order, and nothing else.
C8_CompletenessProof ==
    HasProofs
    => LET proof == extracted.completeness_proof
       IN  /\ Len(proof) = Cardinality(ZeroPrefixed)
           /\ \A i \in ZeroPrefixed :
                \E j \in 1..Len(proof) : proof[j] = block.txdata[i].transaction
           /\ \A j \in 1..Len(proof) :
                \E i \in ZeroPrefixed : proof[j] = block.txdata[i].transaction
           /\ \A j, k \in 1..Len(proof) :
                j < k => PositionOf(proof[j]) < PositionOf(proof[k])

\* a block of three transactions of which two are sampled, one id having a
\* single zero byte
C8_Witness ==
    /\ HasProofs
    /\ Len(block.txdata) = 3
    /\ Cardinality(ZeroPrefixed) = 2
    /\ Len(extracted.completeness_proof) = 2
    /\ \E i \in 1..3 : Txid(block.txdata[i].transaction)[1] = 0
                       /\ Txid(block.txdata[i].transaction)[2] # 0

\* the positions of the block's transactions that decode under the
\* configured rollup name
RelevantPositions ==
    { i \in 1..Len(block.txdata) :
        parse_transaction(block.txdata[i].transaction,
                          ServiceRollupName).status = "Ok" }

\* the hash attached at fetch time to each relevant transaction is the
\* double-hash of its compressed body
AttachedHashesGenuine ==
    \A i \in RelevantPositions :
       block.txdata[i].blob_hash =
         Sha256d(parse_transaction(block.txdata[i].transaction,
                                   ServiceRollupName).body)

\* C9: the output of extract_relevant_txs_with_proof passes the
\* anti-fabrication check: for every returned blob there is a transaction in
\* the returned completeness proof that decodes under the configured rollup
\* name to a body whose double-hash is the blob's hash (the hashes attached
\* at fetch time being the double-hashes of the compressed bodies).
C9_NoFabrication ==
    (extracted.op = "extract_relevant_txs_with_proof" /\ AttachedHashesGenuine)
    => \A b \in 1..Len(extracted.txs) :
         \E j \in 1..Len(extracted.completeness_proof) :
           LET parsed == parse_transaction(extracted.completeness_proof[j],
                                           ServiceRollupName)
           IN  /\ parsed.status = "Ok"
               /\ Sha256d(parsed.body) = extracted.txs[b].hash

\* the positions of send_log at which call c made the event `what`
LogPositions(c, what) ==
    { i \in 1..Len(send_log) :
        send_log[i].caller = c /\ send_log[i].what = what }

\* C10: in send_transaction the reveal transaction is broadcast only after
\* the commit transaction was broadcast successfully, and after the raw
\* reveal transaction was persisted under the commit transaction's id: at
\* every attempt to broadcast the reveal, and from then on, the node holds
\* the commit and the checkpoint is there.
C10_CheckpointBeforeReveal ==
    \A c \in Callers :
       /\ \A i \in LogPositions(c, "send_reveal") :
            \E j, k \in 1..(i - 1) :
               /\ j < k
               /\ send_log[j] = LogEvent(c, "send_commit", TRUE)
               /\ send_log[k] = LogEvent(c, "write_reveal_tx", TRUE)
       /\ (send_pc[c] = "send_reveal" \/ LogPositions(c, "send_reveal") # {})
          => /\ TxidOf(send_local[c].signed) \in mempool
             /\ [key |-> TxidOf(send_local[c].signed),
                 value |-> Serialize(send_local[c].reveal)] \in files

\* both calls have attempted their reveal broadcast, one accepted and one
\* refused
C10_Witness ==
    /\ \E i \in 1..Len(send_log) : send_log[i] = LogEvent(1, "send_reveal", TRUE)
    /\ \E i \in 1..Len(send_log) : send_log[i] = LogEvent(2, "send_reveal", FALSE)
    /\ send_ret[1].status = "Ok"
    /\ send_ret[2] = SendReturned("Err", "send_reveal")

\* the steps of send_transaction in the order of the code, and the position
\* of the step a call returned at
SendSteps ==
    << "get_change_addresses", "get_utxos", "get_satpoint",
       "destination_address", "sign_blob", "estimate_smart_fee",
       "create_inscription_transactions", "sign_commit", "send_commit",
       "write_reveal_tx", "send_reveal" >>

StepIndex(step) ==
    IF \E i \in 1..Len(SendSteps) : SendSteps[i] = step
    THEN CHOOSE i \in 1..Len(SendSteps) : SendSteps[i] = step
    ELSE 0

\* the last step the call c has executed, as far as the state records it
LastExecuted(c) ==
    IF LogPositions(c, "send_reveal") # {} THEN StepIndex("send_reveal")
    ELSE IF LogPositions(c, "write_reveal_tx") # {}
    THEN StepIndex("write_reveal_tx")
    ELSE IF LogPositions(c, "send_commit") # {} THEN StepIndex("send_commit")
    ELSE IF send_local[c].signed # NoTx THEN StepIndex("sign_commit")
    ELSE IF send_local[c].commit # NoTx
    THEN StepIndex("create_inscription_transactions")
    ELSE 0

\* C11: in send_transaction a failure of any step aborts the pipeline: the
\* call returns an error that names the failed step, no later step has been
\* executed, and the process is not aborted; this includes the choice of the
\* inscription point from an empty UTXO set.
C11_StepFailureReturnsError ==
    \A c \in Callers :
       send_pc[c] = "done"
       => /\ send_ret[c].status \in {"Ok", "Err"}
          /\ send_ret[c].status = "Err"
             => /\ StepIndex(send_ret[c].at) > 0
                /\ LastExecuted(c) <= StepIndex(send_ret[c].at)

\* C12: when the configured destination address is not valid for the
\* configured network, send_transaction returns an error and that execution
\* has made no wallet signing call, no send_raw_transaction call and no
\* checkpoint write.
C12_NetworkMismatchBeforeBroadcast ==
    \A c \in Callers :
       (~ config.address_ok /\ send_pc[c] = "done")
       => /\ send_ret[c].status = "Err"
          /\ send_local[c].signed = NoTx
          /\ \A i \in 1..Len(send_log) : send_log[i].caller # c
          /\ files = {}

\* the call c has chosen its inscription point and has not returned
HoldsInscriptionPoint(c) ==
    /\ send_pc[c] \notin {"get_change_addresses", "get_utxos", "done"}
    /\ send_local[c].utxos # <<>>

\* C13: two concurrent send_transaction calls for independent blobs never
\* hold the same UTXO as inscription point and never build commit
\* transactions that spend the same UTXO while both are in progress.
C13_DistinctInscriptionPoints ==
    \A c, d \in Callers :
       (c # d /\ HoldsInscriptionPoint(c) /\ HoldsInscriptionPoint(d))
       => /\ send_local[c].satpoint # send_local[d].satpoint
          /\ (send_local[c].commit # NoTx /\ send_local[d].commit # NoTx)
             => send_local[c].commit.core[1] # send_local[d].commit.core[1]

\* the k-th relevant position, in block order
RelevantAt(k) ==
    CHOOSE i \in RelevantPositions :
       Cardinality({ j \in RelevantPositions : j <= i }) = k

\* C14: extract_relevant_txs returns exactly one BlobWithSender per
\* transaction that decodes under the configured rollup name, in block
\* order, and none for another transaction; each entry is the decompressed
\* decoded body with the sender and hash attached to the transaction at
\* fetch time, unchanged, whether or not the signature verifies.
C14_ScannerOutput ==
    extracted.op \in {"extract_relevant_txs", "extract_relevant_txs_with_proof"}
    => /\ Len(extracted.txs) = Cardinality(RelevantPositions)
       /\ \A k \in 1..Len(extracted.txs) :
            LET t == block.txdata[RelevantAt(k)]
            IN  /\ extracted.txs[k].blob =
                     decompress_blob(parse_transaction(
                         t.transaction, ServiceRollupName).body)
                /\ extracted.txs[k].sender = t.sender
                /\ extracted.txs[k].hash = t.blob_hash

\* the scanner has run on a block with two relevant transactions around an
\* irrelevant one, one of the relevant ones carrying a signature that does
\* not verify (no sender was attached to it)
C14_Witness ==
    /\ extracted.op = "extract_relevant_txs"
    /\ Len(block.txdata) = 3
    /\ RelevantPositions = {1, 3}
    /\ Len(extracted.txs) = 2
    /\ extracted.txs[1].sender = <<>>
    /\ extracted.txs[2].sender # <<>>
    /\ extracted.txs[2].hash # Sha256d(extracted.txs[2].blob)

\* parse_transaction has returned for the script of an envelope
ParsedEnvelope ==
    /\ parser.result.status \notin {"start", "running"}
    /\ envelope.shape = "envelope"

\* C15: the envelope scan never rewinds: every instruction of the script is
\* handed out at most once, and the instructions consumed by a failed
\* attempt, the mismatching one included, start no attempt: a script
\* push(BODY_TAG), push(BODY_TAG), OP_IF, rest of a valid envelope for R,
\* does not decode under R.
C15_NoRewind ==
    /\ (parser.result.status # "start" /\ envelope.shape = "envelope")
       => consumed + Len(instructions) = Len(ScriptOf(envelope))
    /\ ( /\ ParsedEnvelope
         /\ envelope.prefix = << PushBytes(BODY_TAG) >>
         /\ envelope.suffix # LaterEnvelope
         /\ rollup_name = envelope.name )
       => parser.result = ParseErr

\* the whole script push(BODY_TAG), envelope for R with a body chunk, was
\* scanned under R and not decoded
C15_Witness ==
    /\ ParsedEnvelope
    /\ envelope.prefix = << PushBytes(BODY_TAG) >>
    /\ envelope.suffix = <<>>
    /\ rollup_name = envelope.name
    /\ Len(envelope.chunks) >= 1
    /\ parser.result = ParseErr
    /\ consumed = Len(ScriptOf(envelope))

\* C16: the body part of the grammar requires one or more body-chunk pushes:
\* an envelope for the configured name whose second push(BODY_TAG) is
\* immediately followed by OP_ENDIF is not decoded by parse_transaction.
C16_BodyNeedsChunk ==
    ( /\ ParsedEnvelope
      /\ envelope.prefix = <<>> /\ envelope.suffix = <<>>
      /\ rollup_name = envelope.name
      /\ envelope.chunks = <<>> )
    => parser.result.status # "Ok"

\* no instruction of the prefix is a push of BODY_TAG
MarkerFreePrefix ==
    \A i \in 1..Len(envelope.prefix) : ~ IsTagPush(envelope.prefix[i], BODY_TAG)

\* C17: for a script made of a prefix without a push of BODY_TAG, a complete
\* envelope for R and any suffix, parse_transaction queried with R returns
\* the body, signature and public key of that first envelope, whatever the
\* suffix holds.
C17_FirstMatchWins ==
    ( /\ ParsedEnvelope
      /\ MarkerFreePrefix
      /\ rollup_name = envelope.name )
    => parser.result =
         ParsedInscription(Flatten(envelope.chunks), envelope.sig, envelope.pk)

\* an envelope after a non-empty prefix and before a later complete
\* envelope for the same name was decoded, the scan stopping at its OP_ENDIF
C17_Witness ==
    /\ ParsedEnvelope
    /\ envelope.prefix = << Op(OP_IF), PushBytes(<<7>>) >>
    /\ envelope.suffix = LaterEnvelope
    /\ rollup_name = envelope.name /\ rollup_name = <<7>>
    /\ parser.result.status = "Ok"
    /\ parser.result.body = Flatten(envelope.chunks)
    /\ parser.result.body # <<6>>
    /\ Len(instructions) = Len(LaterEnvelope)

\* C18: parse_transaction is total: for every transaction, one with no
\* inputs and one whose first input has no tapscript included, it returns a
\* ParsedInscription or a decode failure and never aborts the process.
C18_ParseTotal ==
    parser.result.status \notin {"start", "running"}
    => parser.result.status \in {"Ok", "Err"}

\* C19: in get_block_at an error of get_block_hash that is not of the
\* not-found class is returned to the caller verbatim: the returned error
\* carries the code and the message of the error the node client returned.
C19_ErrorVerbatim ==
    (call.op = "get_block_at" /\ ret.status = "Err" /\ ret.at = "get_block_hash")
    => /\ ret.error.code = calls.hash_error.code
       /\ ret.error.message = calls.hash_error.message

\* get_finalized_at was called for a height whose finality height is
\* representable
FinalizedCall ==
    call.op = "get_finalized_at" /\ call.height + FINALITY_DEPTH <= MaxU64

\* get_finalized_at has returned: the block of the requested height, or the
\* failure of one of its RPC calls
FinalizedReturn ==
    /\ pc = "done"
    /\ \/ ret.status = "Ok" /\ ret.block = BlockOf(BlockHashAt(call.height))
       \/ ret.status = "Err" /\ \E f \in Faults : ret.error = f.error

\* C20: liveness of get_finalized_at(height): while no poll has observed a
\* tip of at least height + 4 the operation ends only by a failure of
\* get_block_count, never by giving up; and once the tip has reached
\* height + 4 the operation, scheduled fairly, eventually returns, and
\* returns the block of the requested height unless an RPC call failed.
C20_FinalizedLiveness ==
    /\ []((FinalizedCall /\ ~ calls.satisfied /\ pc = "done")
            => (ret.status = "Err" /\ ret.at = "get_block_count"))
    /\ (FinalizedCall /\ tip >= call.height + FINALITY_DEPTH
          /\ calls.count < MaxPolls)
       ~> FinalizedReturn

\* the block of the requested height was returned after the operation slept
\* while the tip was too low, the tip having moved past height + 4 since
C20_Witness ==
    /\ FinalizedCall
    /\ ret.status = "Ok"
    /\ calls.sleep >= 1
    /\ ret.block = call.height
    /\ block_count < tip
    /\ tip > call.height + FINALITY_DEPTH

\* the node has accepted the commit transaction of the call c
CommitBroadcast(c) ==
    \E i \in 1..Len(send_log) : send_log[i] = LogEvent(c, "send_commit", TRUE)

\* the raw reveal transaction of the call c is persisted under the id of
\* its commit transaction
Checkpointed(c) ==
    [key |-> TxidOf(send_local[c].signed),
     value |-> Serialize(send_local[c].reveal)] \in files

\* C21: in send_transaction, once the commit broadcast has succeeded the
\* call can return an error only at the reveal broadcast, and every call
\* that has returned, Ok or Err, after its commit was broadcast has left the
\* raw reveal transaction persisted under the commit transaction's id.
C21_NoCommitWithoutCheckpoint ==
    \A c \in Callers :
       ( /\ send_pc[c] = "done"
         /\ send_ret[c].status \in {"Ok", "Err"}
         /\ CommitBroadcast(c) )
       => /\ send_ret[c].status = "Err" => send_ret[c].at = "send_reveal"
          /\ TxidOf(send_local[c].signed) \in mempool
          /\ Checkpointed(c)

\* a call returned the error of its reveal broadcast after its commit was
\* accepted: the reveal is not in the mempool and its checkpoint is there
C21_Witness ==
    /\ send_ret[1] = SendReturned("Err", "send_reveal")
    /\ CommitBroadcast(1)
    /\ TxidOf(send_local[1].reveal) \notin mempool
    /\ Checkpointed(1)
    /\ send_pc[2] = "get_change_addresses"

\* C22: the finality comparison of get_finalized_at is sound for every u64
\* height, those whose height + FINALITY_DEPTH exceeds the largest u64
\* included: the polling loop is left as satisfied only by a poll that
\* observed a tip of at least the mathematical value height + 4.
C22_FinalitySoundForAllHeights ==
    (call.op = "get_finalized_at" /\ calls.satisfied)
    => block_count >= call.height + FINALITY_DEPTH

====
